---------------------------- MODULE Spec2Model ----------------------------
(***************************************************************************)
(* Model of drivers/net/lora/sx1301.c: the SX1301 LoRa concentrator        *)
(* driver.  One physical SPI device exposes a paged register file; probe   *)
(* brings the chip up and registers two SPI controllers (radio A, radio B) *)
(* whose transfers are translated into register accesses on page 2.        *)
(*                                                                         *)
(* A step of the model is one bus round trip (spi_write or                 *)
(* spi_write_then_read on the parent device, which the parent controller   *)
(* serialises) or one access to the cached page.  The driver takes no lock *)
(* of its own, so the steps of the two radio controllers interleave.       *)
(***************************************************************************)
EXTENDS Integers, Sequences, FiniteSets, TLC

(***************************************************************************)
(* Register map and bit masks (sx1301.c:22-41, 96-99).                     *)
(***************************************************************************)
REG_PAGE_RESET == 0
REG_VERSION == 1
REG_2_SPI_RADIO_A_DATA == 33
REG_2_SPI_RADIO_A_DATA_READBACK == 34
REG_2_SPI_RADIO_A_ADDR == 35
REG_2_SPI_RADIO_A_CS == 37
REG_2_SPI_RADIO_B_DATA == 38
REG_2_SPI_RADIO_B_DATA_READBACK == 39
REG_2_SPI_RADIO_B_ADDR == 40
REG_2_SPI_RADIO_B_CS == 42

BIT(n) == 2 ^ n

REG_PAGE_RESET_SOFT_RESET == BIT(7)
REG_16_GLOBAL_EN == BIT(3)
REG_17_CLK32M_EN == BIT(0)
REG_2_43_RADIO_A_EN == BIT(0)
REG_2_43_RADIO_B_EN == BIT(1)
REG_2_43_RADIO_RST == BIT(2)

REG_RADIO_X_DATA == 0
REG_RADIO_X_DATA_READBACK == 1
REG_RADIO_X_ADDR == 2
REG_RADIO_X_CS == 4

\* addresses probe uses as literals
REG_16 == 16
REG_17 == 17
REG_2_43 == 43
\* the page both radio blocks and register 43 live on
RADIO_PAGE == 2
\* the value probe stores in netdev_priv(netdev)->cur_page
PAGE_UNKNOWN == 255
\* the chip version probe accepts
SX1301_VERSION == 103
\* the largest transfer length transfer_one accepts
XFER_MAX_LEN == 3

\* errno values returned by the driver itself
EINVAL == 22
ENXIO == 6
ENOMEM == 12

(***************************************************************************)
(* Bounds of the model.                                                    *)
(***************************************************************************)
\* transfer lengths offered to transfer_one are 0..MaxLen
MaxLen == 4
\* transport failures injected into radio-controller operations per run
MaxFails == 2

\* what spi_write / spi_write_then_read return: 0 or a transport error
SpiErrors == {-5}
\* register contents the chip may hold before probe
RegVals == {0, 255}
\* what a read returns when the page selected is not the page of the register
OffPageVals == {0}
\* bytes the radio may present in a data-readback register
RbVals == {204}
\* values a read of the version register may return
Versions == {SX1301_VERSION, 102}
\* outgoing bytes of a transfer: tx_buf[i] is TxData[i+1]
TxData == <<170, 187, 221, 238, 17, 34>>
\* marker for a byte of rx_buf the driver has not written
Unset == -1

(***************************************************************************)
(* 8-bit arithmetic.                                                       *)
(***************************************************************************)
Bit(v, i) == (v \div (2 ^ i)) % 2

RECURSIVE AndFrom(_, _, _)
AndFrom(a, b, i) ==
    IF i > 7 THEN 0
    ELSE (2 ^ i) * (Bit(a, i) * Bit(b, i)) + AndFrom(a, b, i + 1)

BitAnd(a, b) == AndFrom(a, b, 0)
BitOr(a, b) == a + b - BitAnd(a, b)
BitNot(a) == 255 - (a % 256)
U8(v) == v % 256

Radios == {"A", "B"}
\* "user" stands for any further caller of sx1301_page_switch
Procs == {"probe", "user"} \cup Radios
Other(c) == IF c = "A" THEN "B" ELSE "A"


VARIABLES
    hw_page,        \* chip: page-select bits of register 0
    hw_reg,         \* chip: contents of the registers the driver reads back
    netdev,         \* "none" | "alloc" | "freed": the loradev of alloc_loradev
    netdev_priv_cur_page, \* netdev_priv(netdev)->cur_page, set at sx1301.c:253
    cur_page,       \* the byte sx1301_page_switch reads and writes as
                    \* priv->cur_page (priv = spi_get_drvdata(spi))
    ctrl,           \* per radio: "none" | "alloc" | "registered" | "put"
    ssx,            \* per radio: controller devdata {page, regs}
    pc,             \* per process: position in the code
    val,            \* probe: local u8 val
    ret,            \* per process: value returned by the last finished call
    op,             \* per radio: the controller callback running or last run
    xfr,            \* per radio: the spi_transfer handed to transfer_one
    rx_buf,         \* per radio: contents of xfr->rx_buf
    cs,             \* per radio: local u8 cs of sx1301_radio_set_cs
    caller,         \* per radio: which call of sx1301_radio_set_cs is active
    log,            \* per process: bus and timing events of the current call
    fails,          \* transport failures injected after probe
    page_arg,       \* the page argument of the call "user" makes
    confirmed,      \* the page of the last sx1301_page_switch that returned 0
                    \* (PAGE_UNKNOWN before the first)
    last_switch     \* page and return value of the last sx1301_page_switch

vars == <<hw_page, hw_reg, netdev, netdev_priv_cur_page, cur_page, ctrl, ssx,
          pc, val, ret, op, xfr, rx_buf, cs, caller, log, fails, page_arg,
          confirmed, last_switch>>

hw_vars == <<hw_page, hw_reg>>
dev_vars == <<netdev, netdev_priv_cur_page, ctrl, ssx>>
hist_vars == <<confirmed, last_switch>>
radio_vars == <<op, xfr, rx_buf, cs, caller, page_arg, hist_vars>>

(***************************************************************************)
(* The chip behind the parent SPI device.  Register 0 is visible on every  *)
(* page, as are the version register and registers 16 and 17, which probe  *)
(* accesses before any page is selected; registers 33..43 exist on page 2. *)
(***************************************************************************)
TrackedRegs == {REG_16, REG_17, REG_2_43, REG_2_SPI_RADIO_A_CS, REG_2_SPI_RADIO_B_CS}
ReadbackRegs == {REG_2_SPI_RADIO_A_DATA_READBACK, REG_2_SPI_RADIO_B_DATA_READBACK}
PagedRegs == REG_2_SPI_RADIO_A_DATA .. REG_2_43

Visible(addr) == addr \notin PagedRegs \/ hw_page = RADIO_PAGE

\* the values a read of addr may return
HwRead(addr) ==
    IF addr = REG_VERSION THEN Versions
    ELSE IF ~Visible(addr) THEN OffPageVals
    ELSE IF addr \in ReadbackRegs THEN RbVals
    ELSE IF addr \in TrackedRegs THEN {hw_reg[addr]}
    ELSE RegVals

\* the chip after it has received a write of v to addr
HwPageAfter(addr, v) == IF addr = REG_PAGE_RESET THEN BitAnd(v, 3) ELSE hw_page
HwRegAfter(addr, v) ==
    IF addr \in TrackedRegs /\ Visible(addr)
    THEN [hw_reg EXCEPT ![addr] = v]
    ELSE hw_reg

(***************************************************************************)
(* Events.  kind "w"/"r" is a bus round trip decoded as the chip sees it:  *)
(* addr is the low 7 bits of the first byte on the wire, page the page     *)
(* selected in the chip when it happened, ret what the SPI core returned.  *)
(***************************************************************************)
Event(k, a, v, r) == [kind |-> k, addr |-> a, val |-> v, ret |-> r, page |-> hw_page]
Gpio(v) == Event("gpio", 0, v, 0)
Sleep(ms) == Event("sleep", 0, ms, 0)

\* results the SPI core may hand back to process p
SpiResults(p) ==
    {0} \cup (IF p = "probe" \/ fails < MaxFails THEN SpiErrors ELSE {})

Count(p, r) == IF p # "probe" /\ r # 0 THEN fails + 1 ELSE fails

\* sx1301_read: one byte addr = reg & 0x7f on the wire, one byte back
sx1301_read_addr(reg) == BitAnd(U8(reg), 127)

sx1301_read(p, reg, v, r, after) ==
    /\ log' = [log EXCEPT ![p] =
                 @ \o <<Event("r", sx1301_read_addr(reg), IF r = 0 THEN v ELSE 0, r)>>
                   \o after]
    /\ fails' = Count(p, r)
    /\ UNCHANGED hw_vars

\* sx1301_write: buf[0] = reg | BIT(7), buf[1] = val; the chip takes the low
\* 7 bits of buf[0] as the address of a write when bit 7 is set
sx1301_write_hdr(reg) == BitOr(U8(reg), BIT(7))

sx1301_write(p, reg, v, r, after) ==
    LET hdr == sx1301_write_hdr(reg)
        addr == BitAnd(hdr, 127)
    IN  /\ Bit(hdr, 7) = 1
        /\ log' = [log EXCEPT ![p] = @ \o <<Event("w", addr, U8(v), r)>> \o after]
        /\ fails' = Count(p, r)
        /\ hw_page' = IF r = 0 THEN HwPageAfter(addr, U8(v)) ELSE hw_page
        /\ hw_reg' = IF r = 0 THEN HwRegAfter(addr, U8(v)) ELSE hw_reg

NoXfr == [len |-> 0, has_tx |-> FALSE, tx_buf |-> <<>>, has_rx |-> FALSE]
NoSsx == [page |-> 0, regs |-> 0]

\* the bytes that may lie where sx1301_page_switch looks for cur_page
AliasBytes == {0, RADIO_PAGE, PAGE_UNKNOWN}

\* the state when the driver core calls probe, the registers of the chip
\* holding one of vals
InitWith(vals) ==
    /\ hw_page = 0
    /\ \E v \in vals : hw_reg = [a \in TrackedRegs |-> v]
    /\ netdev = "none"
    /\ netdev_priv_cur_page = 0
    /\ cur_page = 0
    /\ ctrl = [c \in Radios |-> "none"]
    /\ ssx = [c \in Radios |-> NoSsx]
    /\ pc = [p \in Procs |-> IF p = "probe" THEN "p_gpio" ELSE "idle"]
    /\ val = 0
    /\ ret = [p \in Procs |-> 0]
    /\ op = [c \in Radios |-> "none"]
    /\ xfr = [c \in Radios |-> NoXfr]
    /\ rx_buf = [c \in Radios |-> <<>>]
    /\ cs = [c \in Radios |-> 0]
    /\ caller = [c \in Radios |-> "none"]
    /\ log = [p \in Procs |-> <<>>]
    /\ fails = 0
    /\ page_arg = 0
    /\ confirmed = PAGE_UNKNOWN
    /\ last_switch = [page |-> PAGE_UNKNOWN, ret |-> 0]

Init == InitWith(RegVals)

(***************************************************************************)
(* sx1301_page_switch (sx1301.c:71-89), called by probe, by transfer_one   *)
(* and by sx1301_radio_set_cs.  The test of the cached page and the        *)
(* page-select write are separate steps.                                   *)
(***************************************************************************)
PsCheckLabels == {"p_ps", "x_ps", "cs_ps", "u_ps"}
PsWriteLabels == {"p_psw", "x_psw", "cs_psw", "u_psw"}
PsWriteLabel(l) ==
    CASE l = "p_ps" -> "p_psw" [] l = "x_ps" -> "x_psw"
      [] l = "cs_ps" -> "cs_psw" [] l = "u_ps" -> "u_psw"

\* the page argument of the call process p makes
PageArg(p) ==
    CASE p = "probe" -> RADIO_PAGE
      [] p = "user" -> page_arg
      [] OTHER -> ssx[p].page

\* what sx1301_radio_set_cs hands back once its register write returned wr
SetCsReturn(wr) == 0

\* where process p continues once page_switch has returned r at label l;
\* sets pc, ret and caller
AfterTransfer(c, r) ==
    /\ pc' = [pc EXCEPT ![c] = "idle"]
    /\ ret' = [ret EXCEPT ![c] = r]
    /\ UNCHANGED caller

\* transfer_one after the page switch (sx1301.c:166, 192, 200)
AfterXferSwitch(c) ==
    IF xfr[c].has_tx
    THEN pc' = [pc EXCEPT ![c] = "x_addr"] /\ UNCHANGED <<ret, caller>>
    ELSE IF xfr[c].has_rx
    THEN pc' = [pc EXCEPT ![c] = "x_rb"] /\ UNCHANGED <<ret, caller>>
    ELSE AfterTransfer(c, 0)

\* the caller of sx1301_radio_set_cs once it has returned r
\* (sx1301.c:142-144, 179-192)
AfterSetCs(c, r) ==
    CASE caller[c] = "cb" -> AfterTransfer(c, r)
      [] caller[c] = "x1" ->
            IF r # 0 THEN AfterTransfer(c, r)
            ELSE /\ pc' = [pc EXCEPT ![c] = "cs_ps"]
                 /\ caller' = [caller EXCEPT ![c] = "x0"]
                 /\ UNCHANGED ret
      [] caller[c] = "x0" ->
            IF r # 0 THEN AfterTransfer(c, r)
            ELSE IF xfr[c].has_rx
            THEN pc' = [pc EXCEPT ![c] = "x_rb"] /\ UNCHANGED <<ret, caller>>
            ELSE AfterTransfer(c, 0)

AfterSwitch(p, l, r) ==
    CASE l \in {"p_ps", "p_psw"} ->
            /\ pc' = [pc EXCEPT ![p] = IF r = 0 THEN "p_r43a" ELSE "p_ret"]
            /\ ret' = [ret EXCEPT ![p] = r]
            /\ UNCHANGED caller
      [] l \in {"x_ps", "x_psw"} ->
            IF r = 0 THEN AfterXferSwitch(p) ELSE AfterTransfer(p, r)
      [] l \in {"cs_ps", "cs_psw"} ->
            IF r = 0
            THEN pc' = [pc EXCEPT ![p] = "cs_rd"] /\ UNCHANGED <<ret, caller>>
            ELSE AfterSetCs(p, r)
      [] l \in {"u_ps", "u_psw"} -> AfterTransfer(p, r)

\* mutant: the cache is updated before the result of the write is looked at
CacheAfterSwitch_Eager(page, r) == page

\* sx1301.c:81-86: the cached page once the page-select write returned r
CacheAfterSwitch(page, r) == IF r = 0 THEN page ELSE cur_page

\* what a read of priv->cur_page may yield: the byte stored last while the
\* loradev is allocated; once free_loradev has released it (sx1301.c:407,
\* 418) the read is of freed memory and may yield any byte
CurPageRead == IF netdev = "freed" THEN AliasBytes ELSE {cur_page}

\* sx1301.c:76-77: if (priv->cur_page == page) return 0;
page_switch_check(p) ==
    /\ pc[p] \in PsCheckLabels
    /\ \E cp \in CurPageRead :
          IF cp = PageArg(p)
          THEN /\ AfterSwitch(p, pc[p], 0)
               /\ confirmed' = PageArg(p)
               /\ last_switch' = [page |-> PageArg(p), ret |-> 0]
          ELSE /\ pc' = [pc EXCEPT ![p] = PsWriteLabel(pc[p])]
               /\ UNCHANGED <<ret, caller, hist_vars>>
    /\ UNCHANGED <<hw_vars, dev_vars, cur_page, val, op, xfr, rx_buf, cs, log, fails,
                   page_arg>>

\* sx1301.c:80-88: the page-select write, then priv->cur_page = page
page_switch_write(p) ==
    /\ pc[p] \in PsWriteLabels
    /\ \E r \in SpiResults(p) :
          /\ sx1301_write(p, REG_PAGE_RESET, BitAnd(PageArg(p), 3), r, <<>>)
          /\ cur_page' = CacheAfterSwitch(PageArg(p), r)
          /\ confirmed' = IF r = 0 THEN PageArg(p) ELSE confirmed
          /\ last_switch' = [page |-> PageArg(p), ret |-> r]
          /\ AfterSwitch(p, pc[p], r)
    /\ UNCHANGED <<dev_vars, val, op, xfr, rx_buf, cs, page_arg>>

(***************************************************************************)
(* sx1301_probe (sx1301.c:212-411).                                        *)
(***************************************************************************)
\* mutant: the error exits return 0
ProbeGoto_DropsError(l, r) ==
    /\ pc' = [pc EXCEPT !["probe"] = l]
    /\ ret' = [ret EXCEPT !["probe"] = 0]

\* probe goes on at l; r is the value of ret, which label p_ret returns
ProbeGoto(l, r) ==
    /\ pc' = [pc EXCEPT !["probe"] = l]
    /\ ret' = [ret EXCEPT !["probe"] = r]

\* sx1301.c:221-228: get the reset line, pulse it
probe_gpio ==
    /\ pc["probe"] = "p_gpio"
    /\ \/ /\ ProbeGoto("p_ret", -ENOMEM)
          /\ UNCHANGED log
       \/ /\ ProbeGoto("p_version", 0)
          /\ log' = [log EXCEPT !["probe"] =
                        <<Gpio(1), Sleep(100), Gpio(0), Sleep(100)>>]
    /\ UNCHANGED <<hw_vars, dev_vars, cur_page, val, radio_vars, fails>>

\* mutant: the version byte is not compared
VersionOk_Any(v) == TRUE

\* sx1301.c:239: if (val != 103) is the failing case
VersionOk(v) == v = SX1301_VERSION

\* sx1301.c:233-243: read the version register and compare it
probe_version ==
    /\ pc["probe"] = "p_version"
    /\ \E r \in SpiResults("probe") : \E v \in HwRead(REG_VERSION) :
          /\ sx1301_read("probe", REG_VERSION, v, r, <<>>)
          /\ val' = IF r = 0 THEN v ELSE val
          /\ IF r # 0 THEN ProbeGoto("p_ret", r)
             ELSE IF ~VersionOk(v) THEN ProbeGoto("p_ret", -ENXIO)
             ELSE ProbeGoto("p_alloc", 0)
    /\ UNCHANGED <<dev_vars, cur_page, radio_vars>>

\* sx1301.c:245-256: alloc_loradev; priv = netdev_priv(netdev) gets
\* cur_page = 0xff, while the driver data of spi is set to netdev itself.
\* sx1301_page_switch takes the driver data as its priv, so the cur_page it
\* uses is a byte of *netdev that this function never initialises.
probe_alloc_loradev ==
    /\ pc["probe"] = "p_alloc"
    /\ \/ /\ ProbeGoto("p_ret", -ENOMEM)
          /\ UNCHANGED <<netdev, netdev_priv_cur_page, cur_page>>
       \/ /\ ProbeGoto("p_w0", 0)
          /\ netdev' = "alloc"
          /\ netdev_priv_cur_page' = PAGE_UNKNOWN
          /\ cur_page' \in AliasBytes
    /\ UNCHANGED <<hw_vars, ctrl, ssx, val, radio_vars, log, fails>>

\* the writes of probe that do not depend on a value read:
\* sx1301.c:258 and sx1301_soft_reset (sx1301.c:91-94, 264)
ProbeConstWrites ==
    [p_w0    |-> [reg |-> REG_PAGE_RESET, v |-> 0, next |-> "p_reset"],
     p_reset |-> [reg |-> REG_PAGE_RESET, v |-> REG_PAGE_RESET_SOFT_RESET,
                  next |-> "p_r16"]]

probe_write_const ==
    /\ pc["probe"] \in DOMAIN ProbeConstWrites
    /\ LET s == ProbeConstWrites[pc["probe"]] IN
       \E r \in SpiResults("probe") :
          /\ sx1301_write("probe", s.reg, s.v, r, <<>>)
          /\ ProbeGoto(IF r = 0 THEN s.next ELSE "p_ret", r)
    /\ UNCHANGED <<dev_vars, cur_page, val, radio_vars>>

\* the reads of the read-modify-write steps (sx1301.c:270, 284, 304, 320, 336)
ProbeReads ==
    [p_r16  |-> [reg |-> REG_16, next |-> "p_w16"],
     p_r17  |-> [reg |-> REG_17, next |-> "p_w17"],
     p_r43a |-> [reg |-> REG_2_43, next |-> "p_w43a"],
     p_r43b |-> [reg |-> REG_2_43, next |-> "p_w43b"],
     p_r43c |-> [reg |-> REG_2_43, next |-> "p_w43c"]]

probe_read ==
    /\ pc["probe"] \in DOMAIN ProbeReads
    /\ LET s == ProbeReads[pc["probe"]] IN
       \E r \in SpiResults("probe") : \E v \in HwRead(s.reg) :
          /\ sx1301_read("probe", s.reg, v, r, <<>>)
          /\ val' = IF r = 0 THEN v ELSE val
          /\ ProbeGoto(IF r = 0 THEN s.next ELSE "p_ret", r)
    /\ UNCHANGED <<dev_vars, cur_page, radio_vars>>

\* mutant: the steps write the bit pattern itself instead of modifying val
ProbeModify_Literal(l, v) ==
    CASE l = "p_w16"  -> 0
      [] l = "p_w17"  -> 0
      [] l = "p_w43a" -> BitOr(REG_2_43_RADIO_B_EN, REG_2_43_RADIO_A_EN)
      [] l = "p_w43b" -> BitOr(BitOr(REG_2_43_RADIO_B_EN, REG_2_43_RADIO_A_EN),
                               REG_2_43_RADIO_RST)
      [] l = "p_w43c" -> BitOr(REG_2_43_RADIO_B_EN, REG_2_43_RADIO_A_EN)

\* the modifications of val between read and write
\* (sx1301.c:276, 290, 310, 326, 342)
ProbeModify(l, v) ==
    CASE l = "p_w16"  -> BitAnd(v, BitNot(REG_16_GLOBAL_EN))
      [] l = "p_w17"  -> BitAnd(v, BitNot(REG_17_CLK32M_EN))
      [] l = "p_w43a" -> BitOr(v, BitOr(REG_2_43_RADIO_B_EN, REG_2_43_RADIO_A_EN))
      [] l = "p_w43b" -> BitOr(v, REG_2_43_RADIO_RST)
      [] l = "p_w43c" -> BitAnd(v, BitNot(REG_2_43_RADIO_RST))

\* mutant: the controllers are created before the reset pulse of the radios
ProbeWrites_Early ==
    [p_w16  |-> [reg |-> REG_16, next |-> "p_r17", sleep |-> 0],
     p_w17  |-> [reg |-> REG_17, next |-> "p_ps", sleep |-> 0],
     p_w43a |-> [reg |-> REG_2_43, next |-> "p_allocA", sleep |-> 500],
     p_w43b |-> [reg |-> REG_2_43, next |-> "p_r43c", sleep |-> 5],
     p_w43c |-> [reg |-> REG_2_43, next |-> "p_allocA", sleep |-> 0]]

\* the writes of the read-modify-write steps and the msleep that follows
\* (sx1301.c:278, 292, 312-318, 328-334, 344)
ProbeWrites ==
    [p_w16  |-> [reg |-> REG_16, next |-> "p_r17", sleep |-> 0],
     p_w17  |-> [reg |-> REG_17, next |-> "p_ps", sleep |-> 0],
     p_w43a |-> [reg |-> REG_2_43, next |-> "p_r43b", sleep |-> 500],
     p_w43b |-> [reg |-> REG_2_43, next |-> "p_r43c", sleep |-> 5],
     p_w43c |-> [reg |-> REG_2_43, next |-> "p_allocA", sleep |-> 0]]

probe_write ==
    /\ pc["probe"] \in DOMAIN ProbeWrites
    /\ LET l == pc["probe"]
           s == ProbeWrites[l]
           nv == ProbeModify(l, val)
       IN \E r \in SpiResults("probe") :
             /\ sx1301_write("probe", s.reg, nv, r,
                             IF r = 0 /\ s.sleep > 0 THEN <<Sleep(s.sleep)>> ELSE <<>>)
             /\ val' = nv
             /\ ProbeGoto(IF r = 0 THEN s.next ELSE "p_ret", r)
    /\ UNCHANGED <<dev_vars, cur_page, radio_vars>>

\* mutant: radio B is given a base that overlaps the block of radio A
RadioRegs_Overlap(c) == IF c = "A" THEN REG_2_SPI_RADIO_A_DATA ELSE REG_2_SPI_RADIO_A_CS

\* descriptor of each radio block (sx1301.c:362-363, 386-387)
RadioRegs(c) == IF c = "A" THEN REG_2_SPI_RADIO_A_DATA ELSE REG_2_SPI_RADIO_B_DATA
RadioDesc(c) == [page |-> RADIO_PAGE, regs |-> RadioRegs(c)]

AllocLabel(c) == IF c = "A" THEN "p_allocA" ELSE "p_allocB"
RegLabel(c) == IF c = "A" THEN "p_regA" ELSE "p_regB"

\* mutant: the exits for radio B release radio B and the loradev only
ProbeUnwind_KeepsA(from) ==
    /\ ctrl' = [c \in Radios |->
                  IF \/ c = "B" /\ from = "err_radio_b_register"
                     \/ c = "A" /\ from = "err_radio_a_register"
                  THEN "put" ELSE ctrl[c]]
    /\ netdev' = "freed"

\* the error exits of probe from err_radio_b_register down (sx1301.c:401-410)
ProbeUnwind(from) ==
    /\ ctrl' = [c \in Radios |->
                  IF \/ c = "B" /\ from = "err_radio_b_register"
                     \/ c = "A" /\ from \in {"err_radio_b_register", "err_radio_b_alloc",
                                             "err_radio_a_register"}
                  THEN "put" ELSE ctrl[c]]
    /\ netdev' = "freed"

\* sx1301.c:352-364, 376-388: spi_alloc_master and the devdata of the radio
probe_alloc_radio(c) ==
    /\ pc["probe"] = AllocLabel(c)
    /\ \/ /\ ProbeGoto("p_ret", -ENOMEM)
          /\ ProbeUnwind(IF c = "A" THEN "err_radio_a_alloc" ELSE "err_radio_b_alloc")
          /\ UNCHANGED ssx
       \/ /\ ProbeGoto(RegLabel(c), 0)
          /\ ctrl' = [ctrl EXCEPT ![c] = "alloc"]
          /\ ssx' = [ssx EXCEPT ![c] = RadioDesc(c)]
          /\ UNCHANGED netdev
    /\ UNCHANGED <<hw_vars, netdev_priv_cur_page, cur_page, val, radio_vars, log, fails>>

\* sx1301.c:368-372, 392-400: devm_spi_register_controller
probe_register_radio(c) ==
    /\ pc["probe"] = RegLabel(c)
    /\ \/ /\ ProbeGoto("p_ret", -ENOMEM)
          /\ ProbeUnwind(IF c = "A" THEN "err_radio_a_register" ELSE "err_radio_b_register")
       \/ /\ ProbeGoto(IF c = "A" THEN AllocLabel("B") ELSE "p_ret", 0)
          /\ ctrl' = [ctrl EXCEPT ![c] = "registered"]
          /\ UNCHANGED netdev
    /\ UNCHANGED <<hw_vars, netdev_priv_cur_page, cur_page, ssx, val, radio_vars, log, fails>>

(***************************************************************************)
(* The two radio controllers.  The SPI core runs the callbacks of one      *)
(* controller one after the other; the two controllers have their own      *)
(* message queues and run side by side.                                    *)
(***************************************************************************)
Idle(c) == ctrl[c] = "registered" /\ pc[c] = "idle"

\* mutant: the two calls in transfer_one pass their arguments the wrong way round
enable_Swapped(c) == caller[c] = "x0"

\* mutant: every call passes true
enable_Always(c) == TRUE

\* the argument enable of the running call of sx1301_radio_set_cs
enable(c) == caller[c] = "x1"

\* mutant: the register is written with the bit alone
SetCsBit_Literal(v, en) == IF en THEN BIT(0) ELSE 0

\* sx1301.c:121-124
SetCsBit(v, en) == IF en THEN BitOr(v, BIT(0)) ELSE BitAnd(v, BitNot(BIT(0)))

\* sx1301_radio_spi_set_cs (sx1301.c:133-145), the set_cs callback
radio_spi_set_cs(c, en) ==
    /\ Idle(c)
    /\ op' = [op EXCEPT ![c] = IF en THEN "set_cs_on" ELSE "set_cs_off"]
    /\ IF en
       THEN UNCHANGED <<pc, caller>>
       ELSE /\ pc' = [pc EXCEPT ![c] = "cs_ps"]
            /\ caller' = [caller EXCEPT ![c] = "cb"]
    /\ ret' = [ret EXCEPT ![c] = 0]
    /\ log' = [log EXCEPT ![c] = <<>>]
    /\ xfr' = [xfr EXCEPT ![c] = NoXfr]
    /\ rx_buf' = [rx_buf EXCEPT ![c] = <<>>]
    /\ UNCHANGED <<hw_vars, dev_vars, cur_page, val, cs, fails, page_arg, hist_vars>>

\* a spi_transfer of len bytes with or without tx_buf and rx_buf
Xfr(len, tx, rx) ==
    [len |-> len, has_tx |-> tx,
     tx_buf |-> IF tx THEN SubSeq(TxData, 1, len) ELSE <<>>,
     has_rx |-> rx]

\* every transfer of the lengths the model offers
AllXfrs == {Xfr(len, tx, rx) : len \in 0 .. MaxLen, tx \in BOOLEAN, rx \in BOOLEAN}
\* the transfers offered while both controllers run side by side
SharedXfrs == {Xfr(2, tx, rx) : tx \in BOOLEAN, rx \in BOOLEAN}

\* mutant: the upper limit of the length check is missing
BadLen_NoUpper(len) == len = 0

\* sx1301.c:155-156
BadLen(len) == len = 0 \/ len > XFER_MAX_LEN

\* sx1301_radio_spi_transfer_one (sx1301.c:147-158): entry and length check
radio_spi_transfer_one(c, x) ==
    /\ Idle(c)
    /\ xfr' = [xfr EXCEPT ![c] = x]
    /\ rx_buf' = [rx_buf EXCEPT ![c] =
                    IF x.has_rx THEN [i \in 1 .. x.len |-> Unset] ELSE <<>>]
    /\ IF BadLen(x.len)
       THEN /\ ret' = [ret EXCEPT ![c] = -EINVAL]
            /\ UNCHANGED pc
       ELSE /\ ret' = [ret EXCEPT ![c] = 0]
            /\ pc' = [pc EXCEPT ![c] = "x_ps"]
    /\ op' = [op EXCEPT ![c] = "transfer_one"]
    /\ log' = [log EXCEPT ![c] = <<>>]
    /\ caller' = [caller EXCEPT ![c] = "none"]
    /\ UNCHANGED <<hw_vars, dev_vars, cur_page, val, cs, fails, page_arg, hist_vars>>

\* the byte transfer_one writes to the address register (sx1301.c:167)
TxAddr(x) == IF x.has_tx THEN x.tx_buf[1] ELSE 0
\* the byte transfer_one writes to the data register (sx1301.c:173)
TxData2(x) == IF x.has_tx /\ x.len >= 2 THEN x.tx_buf[2] ELSE 0

\* sx1301.c:167-171
transfer_write_addr(c) ==
    /\ pc[c] = "x_addr"
    /\ \E r \in SpiResults(c) :
          /\ sx1301_write(c, ssx[c].regs + REG_RADIO_X_ADDR, TxAddr(xfr[c]), r, <<>>)
          /\ IF r # 0 THEN AfterTransfer(c, r)
             ELSE pc' = [pc EXCEPT ![c] = "x_data"] /\ UNCHANGED <<ret, caller>>
    /\ UNCHANGED <<dev_vars, cur_page, val, op, xfr, rx_buf, cs, page_arg, hist_vars>>

\* sx1301.c:173-179
transfer_write_data(c) ==
    /\ pc[c] = "x_data"
    /\ \E r \in SpiResults(c) :
          /\ sx1301_write(c, ssx[c].regs + REG_RADIO_X_DATA, TxData2(xfr[c]), r, <<>>)
          /\ IF r # 0 THEN AfterTransfer(c, r)
             ELSE /\ pc' = [pc EXCEPT ![c] = "cs_ps"]
                  /\ caller' = [caller EXCEPT ![c] = "x1"]
                  /\ UNCHANGED ret
    /\ UNCHANGED <<dev_vars, cur_page, val, op, xfr, rx_buf, cs, page_arg, hist_vars>>

\* sx1301_radio_set_cs (sx1301.c:115-124): read the chip-select register,
\* fall back to 0 when the read fails, set or clear bit 0
set_cs_read(c) ==
    /\ pc[c] = "cs_rd"
    /\ \E r \in SpiResults(c) : \E v \in HwRead(sx1301_read_addr(ssx[c].regs + REG_RADIO_X_CS)) :
          /\ sx1301_read(c, ssx[c].regs + REG_RADIO_X_CS, v, r, <<>>)
          /\ cs' = [cs EXCEPT ![c] = SetCsBit(IF r # 0 THEN 0 ELSE v, enable(c))]
    /\ pc' = [pc EXCEPT ![c] = "cs_wr"]
    /\ UNCHANGED <<dev_vars, cur_page, val, ret, op, xfr, rx_buf, caller, page_arg,
                   hist_vars>>

\* sx1301_radio_set_cs (sx1301.c:126-130): write it back and return
set_cs_write(c) ==
    /\ pc[c] = "cs_wr"
    /\ \E r \in SpiResults(c) :
          /\ sx1301_write(c, ssx[c].regs + REG_RADIO_X_CS, cs[c], r, <<>>)
          /\ AfterSetCs(c, SetCsReturn(r))
    /\ UNCHANGED <<dev_vars, cur_page, val, op, xfr, rx_buf, cs, page_arg, hist_vars>>

\* mutant: the readback byte goes to the first byte of rx_buf
RxIndex_First(x) == 1

\* the index of rx_buf the readback byte goes to (sx1301.c:193), 1-based
RxIndex(x) == (x.len - 1) + 1

\* sx1301.c:192-200
transfer_read_back(c) ==
    /\ pc[c] = "x_rb"
    /\ \E r \in SpiResults(c) :
       \E v \in HwRead(sx1301_read_addr(ssx[c].regs + REG_RADIO_X_DATA_READBACK)) :
          /\ sx1301_read(c, ssx[c].regs + REG_RADIO_X_DATA_READBACK, v, r, <<>>)
          /\ rx_buf' = [rx_buf EXCEPT ![c] =
                          IF r = 0 THEN [@ EXCEPT ![RxIndex(xfr[c])] = v] ELSE @]
          /\ AfterTransfer(c, r)
    /\ UNCHANGED <<dev_vars, cur_page, val, op, xfr, cs, page_arg, hist_vars>>

\* a further caller of sx1301_page_switch(spi, page) on the probed device,
\* for every page of the 2-bit page field
Pages == 0 .. 3

user_page_switch(page) ==
    /\ netdev = "alloc"
    /\ pc["probe"] = "p_ret" /\ ret["probe"] = 0
    /\ pc["user"] = "idle"
    /\ page_arg' = page
    /\ pc' = [pc EXCEPT !["user"] = "u_ps"]
    /\ ret' = [ret EXCEPT !["user"] = 0]
    /\ log' = [log EXCEPT !["user"] = <<>>]
    /\ UNCHANGED <<hw_vars, dev_vars, cur_page, val, op, xfr, rx_buf, cs, caller, fails,
                   hist_vars>>

\* sx1301_remove (sx1301.c:413-423): the driver core calls it on a device
\* whose probe returned 0; it releases the loradev and nothing else
remove ==
    /\ pc["probe"] = "p_ret" /\ ret["probe"] = 0
    /\ netdev = "alloc"
    /\ netdev' = "freed"
    /\ UNCHANGED <<hw_vars, netdev_priv_cur_page, cur_page, ctrl, ssx, pc, val, ret,
                   radio_vars, log, fails>>

ProbeNext ==
    \/ probe_gpio
    \/ probe_version
    \/ probe_alloc_loradev
    \/ probe_write_const
    \/ probe_read
    \/ probe_write
    \/ \E c \in Radios : probe_alloc_radio(c)
    \/ \E c \in Radios : probe_register_radio(c)

RadioStep(c) ==
    \/ page_switch_check(c)
    \/ page_switch_write(c)
    \/ transfer_write_addr(c)
    \/ transfer_write_data(c)
    \/ set_cs_read(c)
    \/ set_cs_write(c)
    \/ transfer_read_back(c)

(***************************************************************************)
(* Spec: probe, then the two controllers side by side.                     *)
(***************************************************************************)
Next ==
    \/ ProbeNext
    \/ page_switch_check("probe")
    \/ page_switch_write("probe")
    \/ \E c \in Radios : \E en \in BOOLEAN : radio_spi_set_cs(c, en)
    \/ \E c \in Radios : \E x \in SharedXfrs : radio_spi_transfer_one(c, x)
    \/ \E c \in Radios : RadioStep(c)

Spec == Init /\ [][Next]_vars

(***************************************************************************)
(* SpecCalls: probe, then every call of one controller while the other is  *)
(* left unused.                                                            *)
(***************************************************************************)
Alone(c) == op[Other(c)] = "none"

NextCalls ==
    \/ ProbeNext
    \/ page_switch_check("probe")
    \/ page_switch_write("probe")
    \/ \E c \in Radios : \E en \in BOOLEAN : Alone(c) /\ radio_spi_set_cs(c, en)
    \/ \E c \in Radios : \E x \in AllXfrs : Alone(c) /\ radio_spi_transfer_one(c, x)
    \/ \E c \in Radios : RadioStep(c)

SpecCalls == Init /\ [][NextCalls]_vars

(***************************************************************************)
(* SpecPage: probe, then calls of sx1301_page_switch with every page.      *)
(***************************************************************************)
NextPage ==
    \/ ProbeNext
    \/ \E page \in Pages : user_page_switch(page)
    \/ \E p \in {"probe", "user"} : page_switch_check(p)
    \/ \E p \in {"probe", "user"} : page_switch_write(p)

SpecPage == Init /\ [][NextPage]_vars

(***************************************************************************)
(* SpecBringUp: probe alone, on a chip whose registers hold any byte.      *)
(***************************************************************************)
Bytes == 0 .. 255

InitBytes == InitWith(Bytes)

NextBringUp ==
    \/ ProbeNext
    \/ page_switch_check("probe")
    \/ page_switch_write("probe")

SpecBringUp == InitBytes /\ [][NextBringUp]_vars

(***************************************************************************)
(* SpecLife: probe, the calls of one controller, and remove.               *)
(***************************************************************************)
NextLife ==
    \/ ProbeNext
    \/ page_switch_check("probe")
    \/ page_switch_write("probe")
    \/ remove
    \/ \E c \in Radios : \E en \in BOOLEAN : Alone(c) /\ radio_spi_set_cs(c, en)
    \/ \E c \in Radios : \E x \in SharedXfrs : Alone(c) /\ radio_spi_transfer_one(c, x)
    \/ \E c \in Radios : RadioStep(c)

SpecLife == Init /\ [][NextLife]_vars

(***************************************************************************)
(* Properties.                                                             *)
(***************************************************************************)
\* the register block of each radio as the register map names it
Window(c) ==
    IF c = "A" THEN REG_2_SPI_RADIO_A_DATA .. REG_2_SPI_RADIO_A_CS
    ELSE REG_2_SPI_RADIO_B_DATA .. REG_2_SPI_RADIO_B_CS

CsReg(c) == IF c = "A" THEN REG_2_SPI_RADIO_A_CS ELSE REG_2_SPI_RADIO_B_CS
AddrReg(c) == IF c = "A" THEN REG_2_SPI_RADIO_A_ADDR ELSE REG_2_SPI_RADIO_B_ADDR
DataReg(c) == IF c = "A" THEN REG_2_SPI_RADIO_A_DATA ELSE REG_2_SPI_RADIO_B_DATA
ReadbackReg(c) ==
    IF c = "A" THEN REG_2_SPI_RADIO_A_DATA_READBACK ELSE REG_2_SPI_RADIO_B_DATA_READBACK

\* the lengths the claims call valid
LenInRange(n) == n \in {1, 2, 3}

IsBus(e) == e.kind \in {"r", "w"}
\* the write sx1301_page_switch issues on behalf of its caller
IsPageSelect(e) == e.kind = "w" /\ e.addr = REG_PAGE_RESET
\* the events of q that are not page-select writes
BlockOps(q) == SelectSeq(q, LAMBDA e : ~IsPageSelect(e))
Last(q) == q[Len(q)]
\* process p takes a step
Moves(p) == pc'[p] # pc[p]
\* the call of transfer_one that radio c runs or has last run
InTransfer(c) == op[c] = "transfer_one"
Returned(c) == pc[c] = "idle"
AllOk(q) == \A i \in DOMAIN q : q[i].ret = 0

\* C1: starting from the unknown sentinel, a call of switch_page(target)
\* issues the page-select write if and only if target differs from the page
\* confirmed by the most recent successful switch; the first call always
\* writes.
C1_WriteIffNotConfirmed ==
    [][\A p \in Procs :
          (pc[p] \in PsCheckLabels /\ Moves(p))
             => ((pc'[p] \in PsWriteLabels) <=> (PageArg(p) # confirmed))]_vars

\* C2: a failed page-select write is returned to the caller and leaves the
\* cached page as it was, which is not the target; the next switch_page to
\* the target of a failed switch issues the write again.
C2_FailedSwitchIsRetried ==
    [][\A p \in Procs :
          /\ (pc[p] \in PsWriteLabels /\ Moves(p) /\ last_switch'.ret # 0)
                => /\ ret'[p] = last_switch'.ret
                   /\ Last(log'[p]).kind = "w"
                   /\ Last(log'[p]).addr = REG_PAGE_RESET
                   /\ cur_page' = cur_page
                   /\ cur_page' # PageArg(p)
          /\ (/\ pc[p] \in PsCheckLabels /\ Moves(p)
              /\ last_switch.ret # 0 /\ last_switch.page = PageArg(p))
                => pc'[p] \in PsWriteLabels]_vars

\* a second call for the page whose switch has just failed is at its write
C2_Witness ==
    /\ pc["user"] = "u_psw"
    /\ last_switch.ret # 0
    /\ last_switch.page = page_arg
    /\ cur_page # page_arg

\* C3: whatever the interleaving of the two controllers, every bus access a
\* controller issues targets an address of its own register block (the
\* page-select write of the page switch it requests aside), and none lands in
\* the block of the other.
C3_AccessesInOwnBlock ==
    \A c \in Radios : \A i \in DOMAIN log[c] :
        /\ IsBus(log[c][i])
        /\ log[c][i].addr \notin Window(Other(c))
        /\ ~IsPageSelect(log[c][i]) => log[c][i].addr \in Window(c)

\* both controllers are in the middle of an operation and have written
C3_Witness ==
    /\ ~Returned("A") /\ ~Returned("B")
    /\ \E i \in DOMAIN log["A"] : log["A"][i].kind = "w" /\ log["A"][i].addr = CsReg("A")
    /\ \E i \in DOMAIN log["B"] : log["B"][i].kind = "w" /\ log["B"][i].addr = DataReg("B")

\* C4: whenever a controller reads or writes a register of its block, the
\* page selected in the chip is the page of the block.
C4_BlockAccessOnBlockPage ==
    \A c \in Radios : \A i \in DOMAIN log[c] :
        log[c][i].addr \in Window(c) => log[c][i].page = RADIO_PAGE

\* controller c has switched page and not yet finished the register
\* accesses that follow
InSpan(c) ==
    \/ pc[c] \in {"x_addr", "x_data", "cs_rd", "cs_wr", "x_rb"}
    \/ pc[c] \in {"cs_ps", "cs_psw"} /\ caller[c] \in {"x1", "x0"}

\* C5: the span from a page switch to the register accesses that follow it
\* is never entered by one controller while the other is inside its own.
C5_SwitchAccessSerialized == ~(InSpan("A") /\ InSpan("B"))

\* C6: transfer_one with length 0 or above 3 returns -EINVAL without any bus
\* I/O and leaves cached page and chip as they were.
C6_InvalidLengthRejected ==
    [][\A c \in Radios :
          (/\ pc[c] = "idle" /\ op'[c] = "transfer_one" /\ ~LenInRange(xfr'[c].len)
           /\ <<op[c], xfr[c], ret[c], log[c], rx_buf[c]>>'
                 # <<op[c], xfr[c], ret[c], log[c], rx_buf[c]>>)
             => /\ ret'[c] = -EINVAL
                /\ pc'[c] = "idle"
                /\ log'[c] = <<>>
                /\ \A i \in DOMAIN rx_buf'[c] : rx_buf'[c][i] = Unset
                /\ UNCHANGED <<cur_page, hw_page, hw_reg>>]_vars

\* a transfer of more than 3 bytes with both buffers has been rejected
C6_Witness ==
    \E c \in Radios :
        /\ InTransfer(c) /\ Returned(c)
        /\ xfr[c].len = 4 /\ xfr[c].has_tx /\ xfr[c].has_rx
        /\ ret[c] = -EINVAL /\ log[c] = <<>>

\* C7: after a successful transfer of n bytes with an incoming buffer, index
\* n-1 of the buffer holds the byte read from the data-readback register of
\* the block and every other index is untouched.
C7_ReadbackAtLastIndex ==
    \A c \in Radios :
        (InTransfer(c) /\ xfr[c].has_rx /\ LenInRange(xfr[c].len))
           => IF Returned(c) /\ ret[c] = 0
              THEN /\ Last(log[c]).kind = "r"
                   /\ Last(log[c]).addr = ReadbackReg(c)
                   /\ Last(log[c]).ret = 0
                   /\ Len(rx_buf[c]) = xfr[c].len
                   /\ \A i \in 1 .. xfr[c].len :
                         rx_buf[c][i] = IF i - 1 = xfr[c].len - 1
                                        THEN Last(log[c]).val ELSE Unset
              ELSE \A i \in DOMAIN rx_buf[c] : rx_buf[c][i] = Unset

\* a 3-byte transfer with both phases has stored the readback byte
C7_Witness ==
    \E c \in Radios :
        /\ InTransfer(c) /\ Returned(c) /\ ret[c] = 0
        /\ xfr[c].len = 3 /\ xfr[c].has_tx /\ xfr[c].has_rx
        /\ rx_buf[c] = <<Unset, Unset, 204>>

\* the bus operations C8 names, as kind, address and the part of the value
\* the claim fixes (bit 0 for the chip-select writes)
Shape(e) ==
    [kind |-> e.kind, addr |-> e.addr,
     val |-> IF e.kind = "r" THEN 0
             ELSE IF e.addr \in {REG_2_SPI_RADIO_A_CS, REG_2_SPI_RADIO_B_CS}
             THEN Bit(e.val, 0) ELSE e.val]
Op(k, a, v) == [kind |-> k, addr |-> a, val |-> v]

ExpectedOps(c, x) ==
    (IF x.has_tx
     THEN <<Op("w", AddrReg(c), x.tx_buf[1]),
            Op("w", DataReg(c), IF x.len = 1 THEN 0 ELSE x.tx_buf[2]),
            Op("r", CsReg(c), 0), Op("w", CsReg(c), 1),
            Op("r", CsReg(c), 0), Op("w", CsReg(c), 0)>>
     ELSE <<>>)
    \o (IF x.has_rx THEN <<Op("r", ReadbackReg(c), 0)>> ELSE <<>>)

\* C8: in a transfer with outgoing bytes in which no bus operation fails,
\* the operations on the block are: byte 0 to the address register, byte 1
\* (or 0) to the data register, chip-select written with bit 0 set, then with
\* bit 0 cleared, and only then the data-readback read.
C8_OutgoingOrder ==
    \A c \in Radios :
        (InTransfer(c) /\ xfr[c].has_tx /\ LenInRange(xfr[c].len) /\ AllOk(log[c]))
           => LET ops == BlockOps(log[c]) IN
              /\ Len(ops) <= Len(ExpectedOps(c, xfr[c]))
              /\ \A i \in DOMAIN ops : Shape(ops[i]) = ExpectedOps(c, xfr[c])[i]
              /\ (Returned(c) /\ ret[c] = 0)
                    => Len(ops) = Len(ExpectedOps(c, xfr[c]))

\* a 1-byte transfer with both phases has run to its end without a failure
C8_Witness ==
    \E c \in Radios :
        /\ InTransfer(c) /\ Returned(c) /\ ret[c] = 0
        /\ xfr[c].len = 1 /\ xfr[c].has_tx /\ xfr[c].has_rx
        /\ AllOk(log[c]) /\ Len(log[c]) = 7

\* C9: when a write of the outgoing phase fails (address, data or one of the
\* two chip-select writes), transfer_one issues no further bus operation
\* and returns an error.
C9_OutgoingFailureAborts ==
    \A c \in Radios : \A i \in DOMAIN log[c] :
        (InTransfer(c) /\ log[c][i].kind = "w" /\ log[c][i].ret # 0)
           => /\ i = Len(log[c])
              /\ Returned(c)
              /\ ret[c] # 0

\* C10: the set_cs call returns an error whenever its write to the
\* chip-select register failed, whether or not the read before it failed.
C10_SetCsReportsWriteFailure ==
    \A c \in Radios :
        (/\ op[c] = "set_cs_off" /\ Returned(c) /\ log[c] # <<>>
         /\ Last(log[c]).kind = "w" /\ Last(log[c]).addr = CsReg(c)
         /\ Last(log[c]).ret # 0)
           => ret[c] # 0

\* what probe has logged when it reaches the version read: the reset pulse
ResetPulse == <<Gpio(1), Sleep(100), Gpio(0), Sleep(100)>>

ProbeReturned == pc["probe"] = "p_ret"
NoController == \A c \in Radios : ctrl[c] = "none" /\ op[c] = "none" /\ log[c] = <<>>
\* event e is a successful read of the version register that did not yield
\* the identifier of the chip
WrongVersion(e) ==
    e.kind = "r" /\ e.addr = REG_VERSION /\ e.ret = 0 /\ e.val # SX1301_VERSION

\* C11: when the version read succeeds with a value other than 103, probe
\* returns -ENXIO, which no failed read returns, and does nothing after the
\* read: no write to address 0, no access to 16, 17 or 43, no page switch,
\* no controller.
C11_WrongVersionAborts ==
    \A i \in DOMAIN log["probe"] :
        WrongVersion(log["probe"][i])
           => /\ i = Len(log["probe"])
              /\ SubSeq(log["probe"], 1, i - 1) = ResetPulse
              /\ ProbeReturned
              /\ ret["probe"] = -ENXIO
              /\ ret["probe"] \notin SpiErrors
              /\ last_switch = [page |-> PAGE_UNKNOWN, ret |-> 0]
              /\ netdev = "none"
              /\ NoController

\* probe has returned after reading version 102
C11_Witness ==
    /\ ProbeReturned
    /\ ret["probe"] = -ENXIO
    /\ Last(log["probe"]).addr = REG_VERSION
    /\ Last(log["probe"]).val = 102

\* an event without the values the chip or the driver chose
Key(e) == <<e.kind, IF IsBus(e) THEN e.addr ELSE e.val>>
Keys(q) == [i \in DOMAIN q |-> Key(q[i])]
IsPrefix(q, full) == Len(q) <= Len(full) /\ \A i \in DOMAIN q : q[i] = full[i]

\* the bring-up sequence of the specification, step by step, with or without
\* the page-select write of the switch to page 2
BringUpSeq(withSelect) ==
    <<<<"gpio", 1>>, <<"sleep", 100>>, <<"gpio", 0>>, <<"sleep", 100>>,
      <<"r", REG_VERSION>>, <<"w", REG_PAGE_RESET>>, <<"w", REG_PAGE_RESET>>,
      <<"r", REG_16>>, <<"w", REG_16>>, <<"r", REG_17>>, <<"w", REG_17>>>>
    \o (IF withSelect THEN <<<<"w", REG_PAGE_RESET>>>> ELSE <<>>)
    \o <<<<"r", REG_2_43>>, <<"w", REG_2_43>>, <<"sleep", 500>>,
         <<"r", REG_2_43>>, <<"w", REG_2_43>>, <<"sleep", 5>>,
         <<"r", REG_2_43>>, <<"w", REG_2_43>>>>

\* C12: when a bus operation of probe fails, probe returns that error, the
\* failed operation is the last event of the sequence, what ran before it is
\* the sequence up to that step with nothing repeated or undone, and no
\* controller is created.
C12_FirstFailureAborts ==
    \A i \in DOMAIN log["probe"] :
        (IsBus(log["probe"][i]) /\ log["probe"][i].ret # 0)
           => /\ i = Len(log["probe"])
              /\ ProbeReturned
              /\ ret["probe"] = log["probe"][i].ret
              /\ \E b \in BOOLEAN : IsPrefix(Keys(log["probe"]), BringUpSeq(b))
              /\ NoController

\* the write that sets the radio-reset bit has failed, after the 500 ms delay
C12_Witness ==
    /\ ProbeReturned
    /\ ret["probe"] \in SpiErrors
    /\ Len(log["probe"]) >= 2
    /\ Key(Last(log["probe"])) = <<"w", REG_2_43>>
    /\ Bit(Last(log["probe"]).val, 2) = 1
    /\ \E i \in DOMAIN log["probe"] : Key(log["probe"][i]) = <<"sleep", 500>>

\* the writes of register 43 that probe has completed
RadioWrites ==
    SelectSeq(log["probe"], LAMBDA e : Key(e) = <<"w", REG_2_43>> /\ e.ret = 0)
\* probe has run the whole bring-up sequence and no step of it has failed
BringUpComplete == AllOk(log["probe"]) /\ Len(RadioWrites) = 3

\* C13: in a bring-up in which no step fails the events are, in this order:
\* reset line active, delay, reset line released, delay, version read,
\* soft-reset write, read and write of 16 with bit 3 cleared, read and write
\* of 17 with bit 0 cleared, page-select write of page 2, read and write of
\* 43 with bits 0 and 1 set, 500 ms, read and write of 43 with bit 2 set,
\* 5 ms, read and write of 43 with bit 2 cleared.
C13_BringUpOrder ==
    BringUpComplete
       => LET q == log["probe"] IN
          /\ Keys(q) = BringUpSeq(TRUE)
          /\ q[7].val = REG_PAGE_RESET_SOFT_RESET
          /\ Bit(q[9].val, 3) = 0
          /\ Bit(q[11].val, 0) = 0
          /\ q[12].val = RADIO_PAGE
          /\ Bit(q[14].val, 0) = 1 /\ Bit(q[14].val, 1) = 1
          /\ Bit(q[17].val, 2) = 1
          /\ Bit(q[20].val, 2) = 0

\* a and b agree in every bit that is not set in mask
SameOutside(a, b, mask) == \A i \in 0 .. 7 : Bit(mask, i) = 0 => Bit(a, i) = Bit(b, i)

\* the mask of the k-th write of register reg in the sequence
WriteMask(reg, k) ==
    IF reg = REG_16 THEN 8
    ELSE IF reg = REG_17 THEN 1
    ELSE IF k = 1 THEN 3 ELSE 4

\* how many writes of the register of q[i] there are in q up to i
NthWrite(q, i) ==
    Cardinality({j \in 1 .. i : q[j].kind = "w" /\ q[j].addr = q[i].addr})

\* C14: every read-modify-write step of probe writes back the value it has
\* just read with no bit changed outside the mask of the step, for every
\* 8-bit value the register may hold.
C14_ModifyKeepsOtherBits ==
    LET q == log["probe"] IN
    \A i \in DOMAIN q :
       (q[i].kind = "w" /\ q[i].addr \in {REG_16, REG_17, REG_2_43})
          => /\ q[i - 1].kind = "r" /\ q[i - 1].addr = q[i].addr /\ q[i - 1].ret = 0
             /\ q[i].val \in Bytes
             /\ SameOutside(q[i].val, q[i - 1].val, WriteMask(q[i].addr, NthWrite(q, i)))

\* probe has read 173 from register 16 and written back 165, and it has read
\* 175 from register 43 and written back 171
C14_Witness ==
    /\ Len(log["probe"]) >= 9
    /\ Key(log["probe"][9]) = <<"w", REG_16>>
    /\ log["probe"][8].val = 173 /\ log["probe"][9].val = 165
    /\ \E i \in DOMAIN log["probe"] :
        /\ i > 1
        /\ Key(log["probe"][i]) = <<"w", REG_2_43>>
        /\ log["probe"][i].ret = 0
        /\ log["probe"][i].val = 171
        /\ log["probe"][i - 1].val = 175

\* controller c exists or has been used
InUse(c) == ctrl[c] # "none" \/ op[c] # "none" \/ log[c] # <<>> \/ pc[c] # "idle"

\* C15: no controller exists, and none issues a transfer or a chip-select
\* operation, before every step of the bring-up sequence has succeeded.
C15_ControllersAfterBringUp ==
    \A c \in Radios : InUse(c) => BringUpComplete

\* radio A is in a transfer and has written its address register while probe
\* has not yet created radio B
C15_Witness ==
    /\ pc["probe"] \in {"p_allocB", "p_regB"}
    /\ ctrl["B"] # "registered"
    /\ InTransfer("A") /\ ~Returned("A")
    /\ \E i \in DOMAIN log["A"] : Key(log["A"][i]) = <<"w", AddrReg("A")>>

\* event e is the write sx1301_soft_reset issues, and it has succeeded
IsSoftReset(e) ==
    e.kind = "w" /\ e.addr = REG_PAGE_RESET /\ e.val = REG_PAGE_RESET_SOFT_RESET
    /\ e.ret = 0

\* C16: soft_reset writes bit 7 to address 0 without a page switch, and once
\* it has succeeded the cached page is the unknown sentinel, whatever it was
\* before, so that the next page switch writes the page-select register.
C16_SoftResetInvalidatesCache ==
    (log["probe"] # <<>> /\ IsSoftReset(Last(log["probe"])))
       => /\ last_switch = [page |-> PAGE_UNKNOWN, ret |-> 0]
          /\ cur_page = PAGE_UNKNOWN

\* controller c has been created and not released
Held(c) == ctrl[c] \in {"alloc", "registered"}
\* probe has failed while creating a controller
ControllerFailed == ProbeReturned /\ ret["probe"] # 0 /\ BringUpComplete

\* C17: when the allocation or the registration of a controller fails, probe
\* fails, the other controller, if created, is released and so is the
\* loradev that holds the cached page: probe never returns with exactly one
\* controller in place.
C17_ControllerFailureUnwinds ==
    /\ ControllerFailed
          => /\ netdev = "freed"
             /\ \A c \in Radios : ~Held(c)
    /\ ProbeReturned => (Held("A") <=> Held("B"))

\* the registration of radio B has failed after radio A was registered
C17_Witness ==
    /\ ControllerFailed
    /\ ctrl = [c \in Radios |-> "put"]
    /\ netdev = "freed"

\* controller c is registered with the SPI core, which may call its callbacks
CanIssue(c) == ctrl[c] = "registered"

\* C18: the controllers are torn down before the loradev that holds the
\* cached page is released: in no state has the loradev been released while
\* a controller that uses it can still issue a transfer.
C18_ControllersGoneBeforeStore ==
    netdev = "freed" => \A c \in Radios : ~CanIssue(c)

\* bits 1-7 of a byte
Upper(v) == v - Bit(v, 0)
IsCsWrite(c, e) == e.kind = "w" /\ e.addr = CsReg(c)
IsCsRead(c, e) == e.kind = "r" /\ e.addr = CsReg(c)
\* the argument enable of the call that issued the chip-select write q[i] of
\* controller c: the callback passes false, transfer_one true and then false
EnableAt(c, q, i) == op[c] = "transfer_one" /\ NthWrite(q, i) = 1

\* C19: set_cs(enable) writes the chip-select register of the block with
\* bit 0 equal to enable; bits 1-7 are those of the value just read when the
\* read succeeded and 0 when it failed, and the write is attempted in both
\* cases.
C19_SetCsKeepsOtherBits ==
    \A c \in Radios :
        LET q == log[c] IN
        /\ \A i \in DOMAIN q :
              IsCsWrite(c, q[i])
                 => /\ i > 1 /\ IsCsRead(c, q[i - 1])
                    /\ Bit(q[i].val, 0) = (IF EnableAt(c, q, i) THEN 1 ELSE 0)
                    /\ Upper(q[i].val) =
                          (IF q[i - 1].ret = 0 THEN Upper(q[i - 1].val) ELSE 0)
        /\ (q # <<>> /\ IsCsRead(c, Last(q))) => pc[c] = "cs_wr"

\* in one transfer the register was read as 255 and written as 255, then the
\* read failed and 0 was written
C19_Witness ==
    \E c \in Radios : \E i, j \in DOMAIN log[c] :
        /\ 1 < i /\ i < j
        /\ IsCsWrite(c, log[c][i]) /\ log[c][i].val = 255
        /\ log[c][i - 1].ret = 0 /\ log[c][i - 1].val = 255
        /\ IsCsWrite(c, log[c][j]) /\ log[c][j].val = 0
        /\ log[c][j - 1].ret # 0

\* the chip-select write q[i] of controller c lies in the outgoing phase of a
\* transfer: after the address and data writes, before any readback read
InOutgoingPhase(c, q, i) ==
    /\ op[c] = "transfer_one" /\ xfr[c].has_tx
    /\ \E j, k \in 1 .. i - 1 :
          /\ j < k
          /\ Key(q[j]) = <<"w", AddrReg(c)>>
          /\ Key(q[k]) = <<"w", DataReg(c)>>
    /\ \A j \in 1 .. i : Key(q[j]) # <<"r", ReadbackReg(c)>>

\* what holds of controller c in every state
CsAssertOnlyInTransfer(c) ==
    /\ \A i \in DOMAIN log[c] :
          (IsCsWrite(c, log[c][i]) /\ Bit(log[c][i].val, 0) = 1)
             => InOutgoingPhase(c, log[c], i)
    /\ op[c] = "set_cs_on" => (log[c] = <<>> /\ Returned(c))
    /\ (op[c] = "set_cs_off" /\ Returned(c))
          => \/ IsCsWrite(c, Last(log[c])) /\ Bit(Last(log[c]).val, 0) = 0
             \/ IsPageSelect(Last(log[c])) /\ Last(log[c]).ret # 0

\* the step is a call of the set_cs callback of controller c with enable=true
CallsSetCsOn(c) ==
    /\ pc[c] = "idle" /\ op'[c] = "set_cs_on"
    /\ <<op[c], xfr[c], ret[c], log[c], rx_buf[c]>>'
          # <<op[c], xfr[c], ret[c], log[c], rx_buf[c]>>

\* C20: bit 0 of a chip-select register is written as 1 only in the outgoing
\* phase of transfer_one; the set_cs callback with enable=true does no bus
\* I/O and changes nothing in driver or chip, and the callback with
\* enable=false is the one that reaches the chip-select register.
C20_AssertOnlyInTransfer ==
    [][\A c \in Radios :
          /\ CsAssertOnlyInTransfer(c)'
          /\ CallsSetCsOn(c)
                => /\ pc'[c] = "idle" /\ log'[c] = <<>>
                   /\ UNCHANGED <<hw_page, hw_reg, cur_page, netdev, ctrl, ssx, cs,
                                  fails>>]_vars

\* the callback with enable=true has returned after a transfer had asserted
\* and released chip-select
C20_Witness ==
    \E c \in Radios :
        /\ op[c] = "set_cs_on" /\ Returned(c) /\ log[c] = <<>>
        /\ hw_reg[CsReg(c)] = 254

\* C21: whenever a transfer with outgoing bytes returns 0, bit 0 of the
\* chip-select register of its block is 0, whichever bus operations of the
\* transfer failed.
C21_CsReleasedOnSuccess ==
    \A c \in Radios :
        (/\ InTransfer(c) /\ xfr[c].has_tx /\ LenInRange(xfr[c].len)
         /\ Returned(c) /\ ret[c] = 0)
           => Bit(hw_reg[CsReg(c)], 0) = 0

\* C22: every failing exit of probe taken after alloc_loradev releases the
\* loradev: probe has never returned an error with the loradev, which holds
\* the cached page, still allocated.
C22_FailedProbeFreesStore ==
    (ProbeReturned /\ ret["probe"] # 0) => netdev # "alloc"

=============================================================================
